---- MODULE Spec2Model ----
(***************************************************************************)
(* HUB SOBERANO: the express/better-sqlite3 backend of src/server.ts.      *)
(*                                                                         *)
(* The state is the SQLite database opened at server.ts:10 (one record     *)
(* field per table, plus the AUTOINCREMENT counter of each table that has  *)
(* one), the foreign-key enforcement switch of the connection, and the     *)
(* last HTTP response with, when it answers a case create or update with   *)
(* 200, the request it answers, and what the React client last computed   *)
(* for display.  Every mutating route is one                               *)
(* action: the handlers are synchronous and run to completion, and the     *)
(* bodies wrapped in db.transaction() commit or roll back as a whole.      *)
(* The GET routes do not change the database and are operators over it.    *)
(*                                                                         *)
(* Abstractions: money is an integer number of currency units; a clock     *)
(* reading is a day and a millisecond of that day; photo, whatsapp,        *)
(* product_name/commission_value of a manual commission, created_at        *)
(* columns and the row ids of case_items and logs are not represented:     *)
(* the rows of those two tables are kept per case_id value, in insertion   *)
(* (rowid) order, and the read of a case's log draws the created_at of     *)
(* its rows.                                                               *)
(***************************************************************************)
EXTENDS Integers, Sequences, FiniteSets, TLC

VARIABLES
    db,            \* the database: tables and AUTOINCREMENT counters
    foreign_keys,  \* whether the connection enforces FOREIGN KEY clauses
    res,           \* the last response: the route that answered and its status
    req,           \* the case request that response answered with 200
    ui             \* what the browser last computed for display

vars == <<db, foreign_keys, res, req, ui>>

----------------------------------------------------------------------------
(* Bounds of the model *)

MaxCases == 2        \* case rows ever inserted (AUTOINCREMENT values used)
MaxEmployees == 2    \* employee rows ever inserted
MaxProducts == 1     \* product rows ever inserted
MaxCommissions == 1  \* manual commission rows ever inserted
MaxItems == 2        \* length of a submitted items array
MaxLogs == 2         \* rows of the logs table with the same case_id
MaxSpread == 60      \* distance of a commissioned total from the threshold
MaxEditors == 2      \* case editors opened, each once

(* Program constants *)

ReturnDays == 60         \* 60 * 24 * 60 * 60 * 1000 ms is 60 days
PremiumThreshold == 8000
CommissionThreshold == 5000
ScannerCommissionThreshold == 5000
CaseViewPremiumThreshold == 8000

NULL == -1               \* SQL NULL / JSON null
NullText == "NULL"       \* the same, where the other values are strings

CaseIds == 1..MaxCases
EmployeeIds == 1..MaxEmployees
ProductIds == 1..MaxProducts
CommissionIds == 1..MaxCommissions
LogKeys == {NULL} \cup CaseIds   \* the values of logs.case_id

(* Request inputs *)

CaseNames == {"Mala A", "Mala B"}
EmployeeNames == {"Ana", "Bia"}
Statuses == {"PARADO", "EM_CAMPO", "REPOSIÇÃO NECESSÁRIA"}
\* readings of the system clock: two successive milliseconds of day 0
Times == {[day |-> 0, ms |-> 0], [day |-> 0, ms |-> 1]}
Prices == {3000, 4000}
Quantities == {1, 2}
AgentRefs == {NULL} \cup EmployeeIds
\* product_id 0 is the scanner's placeholder for an unmatched product
ProductRefs == {0} \cup ProductIds
ProductBodies ==
    { [name |-> "Argola", category |-> "brinco", price |-> 3000],
      [name |-> "Solitario", category |-> "anel", price |-> 4000] }
\* bodies that lack a field or carry a negative price
InvalidProductBodies ==
    { [name |-> NullText, category |-> "brinco", price |-> 4000],
      [name |-> "Argola", category |-> NullText, price |-> 4000],
      [name |-> "Argola", category |-> "brinco", price |-> NULL],
      [name |-> "Argola", category |-> "brinco", price |-> -50] }
\* the status of an update is whatever string the body carries
StatusInputs == Statuses \cup {"VENDIDA"}
CommissionPrices == {200}
\* req.body.message of a messaging send, or none
Messages == {"Sua maleta foi processada.", NullText}
LogActions == {"NOTA"}
LogDetails == {"obs"}

Items == [product_id : ProductRefs, quantity : Quantities, price : Prices]

SeqsUpTo(S, n) == UNION { [1..k -> S] : k \in 0..n }

ItemLists == SeqsUpTo(Items, MaxItems)

----------------------------------------------------------------------------
(* SQL helpers *)

\* the rows of a table (a function from row id to row) that satisfy a WHERE
Where(table, P(_)) == { id \in DOMAIN table : P(table[id]) }

RECURSIVE SumFn(_, _)
SumFn(fn, S) ==
    IF S = {} THEN 0
    ELSE LET x == CHOOSE y \in S : TRUE IN fn[x] + SumFn(fn, S \ {x})

\* SUM(col) over a set of rows: NULL over no rows
SqlSum(fn, S) == [isNull |-> S = {}, v |-> SumFn(fn, S)]

\* COALESCE(x, 0) and the JavaScript  x || 0
Coalesce0(x) == IF x.isNull THEN 0 ELSE x.v
OrZero(x) == IF x.isNull \/ x.v = 0 THEN 0 ELSE x.v

\* JavaScript truthiness of a nullable number
Truthy(x) == x # NULL /\ x # 0

\* a row id without its row
Without(table, id) == [k \in DOMAIN table \ {id} |-> table[k]]

\* the result of a statement: the database it leaves, and whether it threw
Ok(d) == [ok |-> TRUE, db |-> d]
Err(d) == [ok |-> FALSE, db |-> d]

\* new Date(t + n * 24 * 60 * 60 * 1000): n days after the reading t
AddDays(t, n) == [t EXCEPT !.day = @ + n]

\* the clock reads t2 after it read t1
NotBefore(t1, t2) == t2.day > t1.day \/ (t2.day = t1.day /\ t2.ms >= t1.ms)

\* an enforced FOREIGN KEY (col) REFERENCES table(id) accepts NULL or a row id
FkHolds(ref, table) == ~foreign_keys \/ ref = NULL \/ ref \in DOMAIN table

----------------------------------------------------------------------------
(* Statements *)

InsertEmployee(d, name) ==
    LET id == d.employees_seq + 1
    IN  [d EXCEPT !.employees = (id :> [name |-> name]) @@ @,
                  !.employees_seq = id]

UpdateEmployee(d, id, name) ==
    IF id \in DOMAIN d.employees
    THEN [d EXCEPT !.employees[id].name = name]
    ELSE d

DeleteEmployeeRow_Cascade(d, id) ==
    Ok([d EXCEPT !.employees = Without(@, id),
                 !.cases = [c \in DOMAIN @ |->
                               IF @[c].employee_id = id
                               THEN [@[c] EXCEPT !.employee_id = NULL]
                               ELSE @[c]],
                 !.manual_commissions =
                     [m \in { x \in DOMAIN @ : @[x].employee_id # id } |-> @[m]]])

\* DELETE FROM employees: cases.employee_id and
\* manual_commissions.employee_id reference the row
DeleteEmployeeRow(d, id) ==
    IF /\ foreign_keys
       /\ id \in DOMAIN d.employees
       /\ \/ Where(d.cases, LAMBDA c : c.employee_id = id) # {}
          \/ Where(d.manual_commissions, LAMBDA m : m.employee_id = id) # {}
    THEN Err(d)
    ELSE Ok([d EXCEPT !.employees = Without(@, id)])

\* name TEXT NOT NULL, category TEXT NOT NULL, price REAL NOT NULL: a field
\* the body lacks is bound as NULL
ProductNotNull(body) ==
    body.name # NullText /\ body.category # NullText /\ body.price # NULL

InsertProduct(d, body) ==
    IF ~ProductNotNull(body) THEN Err(d)
    ELSE LET id == d.products_seq + 1
         IN  Ok([d EXCEPT !.products = (id :> [name |-> body.name,
                                               category |-> body.category,
                                               price |-> body.price,
                                               status |-> "active"]) @@ @,
                          !.products_seq = id])

UpdateProduct_Reprice(d, id, body) ==
    IF id \notin DOMAIN d.products THEN Ok(d)
    ELSE IF ~ProductNotNull(body) THEN Err(d)
    ELSE Ok([d EXCEPT !.products[id].name = body.name,
                      !.products[id].category = body.category,
                      !.products[id].price = body.price,
                      !.case_items = [c \in DOMAIN @ |->
                          [i \in 1..Len(@[c]) |->
                              IF @[c][i].product_id = id
                              THEN [@[c][i] EXCEPT !.price_at_time = body.price]
                              ELSE @[c][i]]]])

UpdateProduct(d, id, body) ==
    IF id \notin DOMAIN d.products THEN Ok(d)
    ELSE IF ~ProductNotNull(body) THEN Err(d)
    ELSE Ok([d EXCEPT !.products[id].name = body.name,
                      !.products[id].category = body.category,
                      !.products[id].price = body.price])

RemoveProduct_Hard(d, id) ==
    IF id \in DOMAIN d.products
    THEN [d EXCEPT !.products = Without(@, id)]
    ELSE d

RemoveProduct(d, id) ==
    IF id \in DOMAIN d.products
    THEN [d EXCEPT !.products[id].status = "removed"]
    ELSE d

InsertCase(d, name, employee_id, delivery_date, return_date, status) ==
    IF ~FkHolds(employee_id, d.employees) THEN Err(d)
    ELSE LET id == d.cases_seq + 1
         IN  Ok([d EXCEPT !.cases = (id :> [name |-> name,
                                            employee_id |-> employee_id,
                                            delivery_date |-> delivery_date,
                                            return_date |-> return_date,
                                            status |-> status,
                                            total_value |-> 0]) @@ @,
                          !.cases_seq = id])

UpdateCaseFields_KeepStatus(d, id, name, employee_id, status) ==
    IF id \notin DOMAIN d.cases THEN Ok(d)
    ELSE IF ~FkHolds(employee_id, d.employees) THEN Err(d)
    ELSE Ok([d EXCEPT !.cases[id].name = name,
                      !.cases[id].employee_id = employee_id])

UpdateCaseFields(d, id, name, employee_id, status) ==
    IF id \notin DOMAIN d.cases THEN Ok(d)
    ELSE IF ~FkHolds(employee_id, d.employees) THEN Err(d)
    ELSE Ok([d EXCEPT !.cases[id].name = name,
                      !.cases[id].employee_id = employee_id,
                      !.cases[id].status = status])

UpdateCaseTotal(d, id, totalValue) ==
    IF id \in DOMAIN d.cases
    THEN [d EXCEPT !.cases[id].total_value = totalValue]
    ELSE d

InsertCaseItem(d, case_id, item) ==
    IF ~FkHolds(case_id, d.cases) \/ ~FkHolds(item.product_id, d.products)
    THEN Err(d)
    ELSE Ok([d EXCEPT !.case_items[case_id] =
                 Append(@, [product_id |-> item.product_id,
                            quantity |-> item.quantity,
                            price_at_time |-> item.price])])

DeleteCaseItems_Keep(d, case_id) == d

DeleteCaseItems(d, case_id) == [d EXCEPT !.case_items[case_id] = <<>>]

DeleteCaseRow(d, id) ==
    IF foreign_keys /\ id \in DOMAIN d.cases /\ d.case_items[id] # <<>>
    THEN Err(d)
    ELSE Ok([d EXCEPT !.cases = Without(@, id)])

InsertLog_Overwrite(d, case_id, action, details) ==
    [d EXCEPT !.logs[case_id] =
         IF @ = <<>> THEN <<[action |-> action, details |-> details]>>
         ELSE [@ EXCEPT ![Len(@)] = [action |-> action, details |-> details]]]

InsertLog(d, case_id, action, details) ==
    [d EXCEPT !.logs[case_id] = Append(@, [action |-> action,
                                           details |-> details])]

DeleteLogs_Keep(d, case_id) == d

DeleteLogs(d, case_id) ==
    [d EXCEPT !.logs[case_id] = <<>>]

InsertManualCommission(d, employee_id, price) ==
    IF ~FkHolds(employee_id, d.employees) THEN Err(d)
    ELSE LET id == d.manual_commissions_seq + 1
         IN  Ok([d EXCEPT !.manual_commissions =
                              (id :> [employee_id |-> employee_id,
                                      price |-> price]) @@ @,
                          !.manual_commissions_seq = id])

DeleteManualCommissionRow(d, id) ==
    [d EXCEPT !.manual_commissions = Without(@, id)]

\* the  for (const item of items)  loop of case create and case update
RECURSIVE InsertItemsLoop(_, _, _, _)
InsertItemsLoop(d, case_id, items, totalValue) ==
    IF items = <<>> THEN [ok |-> TRUE, db |-> d, totalValue |-> totalValue]
    ELSE LET item == Head(items)
             r == InsertCaseItem(d, case_id, item)
         IN  IF ~r.ok
             THEN [ok |-> FALSE, db |-> r.db, totalValue |-> totalValue]
             ELSE InsertItemsLoop(r.db, case_id, Tail(items),
                                  totalValue + item.price * item.quantity)

transaction_NoRollback(d, r) == r.db

\* db.transaction(fn)(): commits when fn returns, rolls back when it throws
transaction(d, r) == IF r.ok THEN r.db ELSE d

\* the status of the response: express answers an uncaught exception with 500
StatusOf(r) == IF r.ok THEN 200 ELSE 500

CreateDetails(n) == "Maleta criada com " \o ToString(n) \o " itens."
WhatsappDetails(name) == "Envio automático via API para " \o name

----------------------------------------------------------------------------
(* Transaction bodies *)

\* employee_id ? 'EM_CAMPO' : 'PARADO'
InitialStatus(employee_id) ==
    IF Truthy(employee_id) THEN "EM_CAMPO" ELSE "PARADO"

\* app.post("/api/cases"): the function given to db.transaction
CreateCaseBody(d, name, employee_id, items, delivery_date, return_date) ==
    LET r1 == InsertCase(d, name, employee_id, delivery_date, return_date,
                         InitialStatus(employee_id))
        caseId == r1.db.cases_seq
        r2 == InsertItemsLoop(r1.db, caseId, items, 0)
    IN  IF ~r1.ok THEN r1
        ELSE IF ~r2.ok THEN Err(r2.db)
        ELSE Ok(InsertLog(UpdateCaseTotal(r2.db, caseId, r2.totalValue),
                          caseId, "CREATE", CreateDetails(Len(items))))

UpdateCaseBody_AlwaysReplace(d, caseId, name, employee_id, status, items) ==
    LET r1 == UpdateCaseFields(d, caseId, name, employee_id, status)
        r2 == InsertItemsLoop(DeleteCaseItems(r1.db, caseId), caseId,
                              items.list, 0)
    IN  IF ~r1.ok THEN r1
        ELSE IF ~r2.ok THEN Err(r2.db)
        ELSE Ok(InsertLog(UpdateCaseTotal(r2.db, caseId, r2.totalValue),
                          caseId, "UPDATE", "Maleta atualizada."))

\* app.put("/api/cases/:id"): the function given to db.transaction;
\* items.given is FALSE when the body carries no items array
UpdateCaseBody(d, caseId, name, employee_id, status, items) ==
    LET r1 == UpdateCaseFields(d, caseId, name, employee_id, status)
        r2 == InsertItemsLoop(DeleteCaseItems(r1.db, caseId), caseId,
                              items.list, 0)
    IN  IF ~r1.ok THEN r1
        ELSE IF ~items.given
        THEN Ok(InsertLog(r1.db, caseId, "UPDATE", "Maleta atualizada."))
        ELSE IF ~r2.ok THEN Err(r2.db)
        ELSE Ok(InsertLog(UpdateCaseTotal(r2.db, caseId, r2.totalValue),
                          caseId, "UPDATE", "Maleta atualizada."))

\* app.delete("/api/cases/:id"): the function given to db.transaction
DeleteCaseBody(d, caseId) ==
    DeleteCaseRow(DeleteLogs(DeleteCaseItems(d, caseId), caseId), caseId)

ItemsArgs ==
    {[given |-> FALSE, list |-> <<>>]}
        \cup {[given |-> TRUE, list |-> l] : l \in ItemLists}

----------------------------------------------------------------------------
(* Routes that read the database *)

\* the rows a query yields for the ids of S, in ascending id order
RECURSIVE RowsById(_, _)
RowsById(row, S) ==
    IF S = {} THEN <<>>
    ELSE LET id == CHOOSE x \in S : \A y \in S : x <= y
         IN  <<row[id]>> \o RowsById(row, S \ {id})

TotalValueOf(d) == [c \in DOMAIN d.cases |-> d.cases[c].total_value]
PriceOf(d) == [m \in DOMAIN d.manual_commissions |->
                  d.manual_commissions[m].price]

\* app.get("/api/products"): SELECT * FROM products WHERE status = 'active'
GetProducts(d) ==
    RowsById([p \in DOMAIN d.products |->
                 [id |-> p, name |-> d.products[p].name,
                  category |-> d.products[p].category,
                  price |-> d.products[p].price,
                  status |-> d.products[p].status]],
             Where(d.products, LAMBDA p : p.status = "active"))

\* case_items ci JOIN products p ON ci.product_id = p.id WHERE ci.case_id = ?
RECURSIVE JoinProducts(_, _)
JoinProducts(d, rows) ==
    IF rows = <<>> THEN <<>>
    ELSE LET ci == Head(rows)
         IN  (IF ci.product_id \in DOMAIN d.products
              THEN <<[product_id |-> ci.product_id,
                      quantity |-> ci.quantity,
                      price_at_time |-> ci.price_at_time,
                      product_name |-> d.products[ci.product_id].name,
                      product_category |->
                          d.products[ci.product_id].category]>>
              ELSE <<>>) \o JoinProducts(d, Tail(rows))

\* app.get("/api/cases"): cases LEFT JOIN employees, each with its items
GetCases(d) ==
    RowsById([c \in DOMAIN d.cases |->
                 [id |-> c, name |-> d.cases[c].name,
                  employee_id |-> d.cases[c].employee_id,
                  status |-> d.cases[c].status,
                  total_value |-> d.cases[c].total_value,
                  delivery_date |-> d.cases[c].delivery_date,
                  return_date |-> d.cases[c].return_date,
                  employee_name |->
                      IF d.cases[c].employee_id \in DOMAIN d.employees
                      THEN d.employees[d.cases[c].employee_id].name
                      ELSE NullText,
                  items |-> JoinProducts(d, d.case_items[c])]],
             DOMAIN d.cases)

\* the row of the case list for case id
CaseListRow(d, id) ==
    LET rows == GetCases(d)
    IN  rows[CHOOSE i \in 1..Len(rows) : rows[i].id = id]

\* the seconds CURRENT_TIMESTAMP can have given to the rows of the logs table
LogSeconds == {0, 1}

\* created_at of n rows: the clock readings at which they were inserted
Stamps(n) == [1..n -> LogSeconds]

\* SELECT * FROM logs WHERE case_id = ?, the rows with their created_at
Stamped(rows, ts) ==
    [i \in 1..Len(rows) |-> [action |-> rows[i].action,
                             details |-> rows[i].details,
                             created_at |-> ts[i]]]

\* the orders in which a sort can return n rows
Perms(n) == { f \in [1..n -> 1..n] : \A i, j \in 1..n : i # j => f[i] # f[j] }

\* ORDER BY created_at DESC: rows of the same second come in any order
OrderByCreatedAtDesc(rows) ==
    { [i \in 1..Len(rows) |-> rows[f[i]]] :
        f \in { g \in Perms(Len(rows)) :
                  \A i, j \in 1..Len(rows) :
                      i < j => rows[g[i]].created_at >= rows[g[j]].created_at } }

\* app.get("/api/cases/:id/logs"): the responses the route can give
GetCaseLogs(d, id) ==
    UNION { OrderByCreatedAtDesc(Stamped(d.logs[id], ts)) :
              ts \in Stamps(Len(d.logs[id])) }

\* app.get("/api/employees"): employees LEFT JOIN cases GROUP BY e.id
GetEmployees(d) ==
    RowsById([e \in DOMAIN d.employees |->
                 [id |-> e,
                  name |-> d.employees[e].name,
                  total_sales |-> Coalesce0(SqlSum(TotalValueOf(d),
                      Where(d.cases, LAMBDA c : c.employee_id = e)))]],
             DOMAIN d.employees)

SalesByEmployee_InnerJoin(d) ==
    RowsById([e \in DOMAIN d.employees |->
                 [name |-> d.employees[e].name,
                  value |-> Coalesce0(SqlSum(TotalValueOf(d),
                                Where(d.cases, LAMBDA c : c.employee_id = e)))
                            + Coalesce0(SqlSum(PriceOf(d),
                                Where(d.manual_commissions,
                                      LAMBDA m : m.employee_id = e)))]],
             { e \in DOMAIN d.employees :
                 Where(d.cases, LAMBDA c : c.employee_id = e) # {} })

\* the salesByEmployee query of app.get("/api/stats")
SalesByEmployee(d) ==
    RowsById([e \in DOMAIN d.employees |->
                 [name |-> d.employees[e].name,
                  value |-> Coalesce0(SqlSum(TotalValueOf(d),
                                Where(d.cases, LAMBDA c : c.employee_id = e)))
                            + Coalesce0(SqlSum(PriceOf(d),
                                Where(d.manual_commissions,
                                      LAMBDA m : m.employee_id = e)))]],
             DOMAIN d.employees)

VgvCases_InFieldOnly(d) ==
    SqlSum(TotalValueOf(d), Where(d.cases, LAMBDA c : c.status = "EM_CAMPO"))

\* SELECT SUM(total_value) FROM cases WHERE status != 'PARADO'
VgvCases(d) ==
    SqlSum(TotalValueOf(d), Where(d.cases, LAMBDA c : c.status # "PARADO"))

PremiumCases_Inclusive(d) ==
    Cardinality(Where(d.cases, LAMBDA c : c.total_value >= PremiumThreshold))

\* SELECT COUNT(*) FROM cases WHERE total_value > 8000
PremiumCases(d) ==
    Cardinality(Where(d.cases, LAMBDA c : c.total_value > PremiumThreshold))

\* SELECT SUM(price) FROM manual_commissions
VgvManual(d) == SqlSum(PriceOf(d), DOMAIN d.manual_commissions)

\* app.get("/api/stats")
GetStats(d) ==
    LET vgvCases == VgvCases(d)
        vgvManual == VgvManual(d)
    IN  [vgv |-> OrZero(vgvCases) + OrZero(vgvManual),
         activeCases |->
             Cardinality(Where(d.cases, LAMBDA c : c.status = "EM_CAMPO")),
         premiumCases |-> PremiumCases(d),
         totalEmployees |-> Cardinality(DOMAIN d.employees),
         salesByEmployee |-> SalesByEmployee(d)]

----------------------------------------------------------------------------
(* Routes that change the database *)

\* the logs table can take another row for case_id
LogRoom(case_id) == Len(db.logs[case_id]) < MaxLogs

\* nothing computed yet
NoView == [view |-> "none"]

\* req.params.id and req.body of a case update; a case create has neither
\* id nor status
CaseRequest(id, name, employee_id, status, items) ==
    [id |-> id, name |-> name, employee_id |-> employee_id,
     status |-> status, items |-> items]

\* what req holds after any other request, and after one not answered 200
NoBody == CaseRequest(NULL, "", NULL, "", [given |-> FALSE, list |-> <<>>])

Respond(op, code) ==
    /\ res' = [op |-> op, code |-> code]
    /\ req' = NoBody
    /\ UNCHANGED ui

RespondTo(body, op, code) ==
    /\ res' = [op |-> op, code |-> code]
    /\ req' = IF code = 200 THEN body ELSE NoBody
    /\ UNCHANGED ui

PostEmployee(name) ==
    /\ db.employees_seq < MaxEmployees
    /\ db' = InsertEmployee(db, name)
    /\ Respond("POST /api/employees", 200)
    /\ UNCHANGED foreign_keys

PutEmployee(id, name) ==
    /\ db' = UpdateEmployee(db, id, name)
    /\ Respond("PUT /api/employees/:id", 200)
    /\ UNCHANGED foreign_keys

DeleteEmployee(id) ==
    LET activeCases == Cardinality(Where(db.cases,
                           LAMBDA c : c.employee_id = id /\ c.status = "EM_CAMPO"))
        r == DeleteEmployeeRow(db, id)
    IN  /\ IF activeCases > 0
           THEN /\ db' = db
                /\ Respond("DELETE /api/employees/:id", 400)
           ELSE /\ db' = (IF r.ok THEN r.db ELSE db)
                /\ Respond("DELETE /api/employees/:id", StatusOf(r))
        /\ UNCHANGED foreign_keys

PostProduct(body) ==
    LET r == InsertProduct(db, body)
    IN  /\ db.products_seq < MaxProducts
        /\ db' = (IF r.ok THEN r.db ELSE db)
        /\ Respond("POST /api/products", StatusOf(r))
        /\ UNCHANGED foreign_keys

PutProduct(id, body) ==
    LET r == UpdateProduct(db, id, body)
    IN  /\ db' = (IF r.ok THEN r.db ELSE db)
        /\ Respond("PUT /api/products/:id", StatusOf(r))
        /\ UNCHANGED foreign_keys

DeleteProduct(id) ==
    /\ db' = RemoveProduct(db, id)
    /\ Respond("DELETE /api/products/:id", 200)
    /\ UNCHANGED foreign_keys

\* t1 is the clock read by  new Date()  and t2 the clock read by Date.now()
PostCase(name, employee_id, items, t1, t2) ==
    LET delivery_date == t1
        return_date == AddDays(t2, ReturnDays)
        r == CreateCaseBody(db, name, employee_id, items,
                            delivery_date, return_date)
    IN  /\ NotBefore(t1, t2)
        /\ db.cases_seq < MaxCases
        /\ LogRoom(db.cases_seq + 1)
        /\ db' = transaction(db, r)
        /\ RespondTo(CaseRequest(NULL, name, employee_id, "",
                                  [given |-> TRUE, list |-> items]),
                      "POST /api/cases", StatusOf(r))
        /\ UNCHANGED foreign_keys

PutCase(id, name, employee_id, status, items) ==
    LET r == UpdateCaseBody(db, id, name, employee_id, status, items)
    IN  /\ LogRoom(id)
        /\ db' = transaction(db, r)
        /\ RespondTo(CaseRequest(id, name, employee_id, status, items),
                      "PUT /api/cases/:id", StatusOf(r))
        /\ UNCHANGED foreign_keys

DeleteCase(id) ==
    LET r == DeleteCaseBody(db, id)
    IN  /\ db' = transaction(db, r)
        /\ Respond("DELETE /api/cases/:id", StatusOf(r))
        /\ UNCHANGED foreign_keys

PostCaseLog(id, action, details) ==
    /\ LogRoom(id)
    /\ db' = InsertLog(db, id, action, details)
    /\ Respond("POST /api/cases/:id/log", 200)
    /\ UNCHANGED foreign_keys

PostManualCommission(employee_id, price) ==
    LET r == InsertManualCommission(db, employee_id, price)
    IN  /\ db.manual_commissions_seq < MaxCommissions
        /\ db' = (IF r.ok THEN r.db ELSE db)
        /\ Respond("POST /api/manual-commissions", StatusOf(r))
        /\ UNCHANGED foreign_keys

DeleteManualCommission(id) ==
    /\ db' = DeleteManualCommissionRow(db, id)
    /\ Respond("DELETE /api/manual-commissions/:id", 200)
    /\ UNCHANGED foreign_keys

\* case_id is NULL when the body carries none, message is NullText when
\* the body carries none: message.substring(0, 100) then throws, after the
\* log entry was inserted outside any transaction
WhatsappSend(employee_id, case_id, message) ==
    LET logged == IF Truthy(case_id) THEN case_id ELSE NULL
    IN  IF employee_id \notin DOMAIN db.employees
        THEN /\ db' = db
             /\ Respond("POST /api/whatsapp/send", 404)
             /\ UNCHANGED foreign_keys
        ELSE /\ LogRoom(logged)
             /\ db' = InsertLog(db, logged, "WHATSAPP_API",
                                WhatsappDetails(db.employees[employee_id].name))
             /\ Respond("POST /api/whatsapp/send",
                        IF message = NullText THEN 500 ELSE 200)
             /\ UNCHANGED foreign_keys

----------------------------------------------------------------------------
(* The React client.  A rate is kept in tenths (0.4 is 4) and the product  *)
(* of a total and a rate in tenths of a currency unit.                     *)

calculateCommission_StrictThreshold(total) ==
    LET rate == IF total > CommissionThreshold THEN 4 ELSE 3
    IN  [rate |-> rate * 10, value |-> total * rate]

\* renderCases: const isPremium = c.total_value > 8000
isPremium(c) == c.total_value > CaseViewPremiumThreshold

\* calculateCommission: { rate: rate * 100, value: total * rate }
calculateCommission(total) ==
    LET rate == IF total >= CommissionThreshold THEN 4 ELSE 3
    IN  [rate |-> rate * 10, value |-> total * rate]

\* scannedItems.reduce((acc, i) => acc + (i.price * i.quantity), 0)
RECURSIVE ScannedTotal(_)
ScannedTotal(scannedItems) ==
    IF scannedItems = <<>> THEN 0
    ELSE ScannedTotal(SubSeq(scannedItems, 1, Len(scannedItems) - 1))
             + scannedItems[Len(scannedItems)].price
                   * scannedItems[Len(scannedItems)].quantity

\* a component calls calculateCommission(total) to render a commission
CalculateCommission(total) ==
    /\ ui' = [view |-> "calculateCommission", total |-> total,
              rate |-> calculateCommission(total).rate,
              value |-> calculateCommission(total).value]
    /\ UNCHANGED <<db, foreign_keys, res, req>>

\* sendWhatsAppFromScanner: employeeFound is whether employees.find(...)
\* finds the selected agent
SendWhatsAppFromScanner(employeeFound, scannedItems) ==
    LET totalValue == ScannedTotal(scannedItems)
        rate == IF totalValue >= ScannerCommissionThreshold THEN 4 ELSE 3
        commission == totalValue * rate
    IN  /\ ui' = IF ~employeeFound
                 THEN [view |-> "alert"]
                 ELSE [view |-> "sendWhatsAppFromScanner",
                       total |-> totalValue, rate |-> rate * 10,
                       value |-> commission]
        /\ UNCHANGED <<db, foreign_keys, res, req>>

\* an editor that was never opened, and one that has saved and closed
\* after sending items
IdleEditor == [step |-> "idle"]
SavedEditor(items) == [step |-> "saved", sent |-> items]

\* setEditingCase(c): the case editor opens on a row of the case list
OpenEditor(e, id) ==
    LET caseObj == CaseListRow(db, id)
    IN  /\ ui.editors[e] = IdleEditor
        /\ id \in DOMAIN db.cases
        /\ ui' = [ui EXCEPT !.editors[e] =
                      [step |-> "open", id |-> id, name |-> caseObj.name,
                       employeeId |-> IF Truthy(caseObj.employee_id)
                                      THEN caseObj.employee_id ELSE NULL,
                       status |-> caseObj.status, items |-> caseObj.items]]
        /\ UNCHANGED <<db, foreign_keys, res, req>>

\* the product selector of the editor: setItems([...items, {...}]) for a
\* product p of the active product list
EditorAddProduct(e, p) ==
    /\ ui.editors[e].step = "open"
    /\ Len(ui.editors[e].items) < MaxItems
    /\ \E i \in 1..Len(GetProducts(db)) :
           /\ GetProducts(db)[i].id = p
           /\ ui' = [ui EXCEPT !.editors[e].items = Append(@,
                         [product_id |-> p,
                          product_name |-> GetProducts(db)[i].name,
                          product_category |-> GetProducts(db)[i].category,
                          quantity |-> 1,
                          price_at_time |-> GetProducts(db)[i].price])]
    /\ UNCHANGED <<db, foreign_keys, res, req>>

\* the status select of the editor
EditorSetStatus(e, status) ==
    /\ ui.editors[e].step = "open"
    /\ ui.editors[e].status # status
    /\ ui' = [ui EXCEPT !.editors[e].status = status]
    /\ UNCHANGED <<db, foreign_keys, res, req>>

\* items.map(i => ({product_id, quantity, price: i.price_at_time}))
EditorPayload(items) ==
    [i \in 1..Len(items) |-> [product_id |-> items[i].product_id,
                              quantity |-> items[i].quantity,
                              price |-> items[i].price_at_time]]

\* CaseEditorModal.handleSave: the PUT with the editor's fields, then
\* onSave() closes the editor
EditorSave(e) ==
    LET ed == ui.editors[e]
        items == [given |-> TRUE, list |-> EditorPayload(ed.items)]
        employee_id == IF Truthy(ed.employeeId) THEN ed.employeeId ELSE NULL
        r == UpdateCaseBody(db, ed.id, ed.name, employee_id, ed.status, items)
    IN  /\ ed.step = "open"
        /\ db' = transaction(db, r)
        /\ res' = [op |-> "PUT /api/cases/:id", code |-> StatusOf(r)]
        /\ req' = IF r.ok
                  THEN CaseRequest(ed.id, ed.name, employee_id, ed.status, items)
                  ELSE NoBody
        /\ ui' = [ui EXCEPT !.editors[e] = SavedEditor(items.list)]
        /\ UNCHANGED foreign_keys

\* allCases.sort((a, b) => b.id - a.id)
RECURSIVE SortByIdDesc(_)
SortByIdDesc(rows) ==
    IF rows = <<>> THEN <<>>
    ELSE LET i == CHOOSE x \in 1..Len(rows) :
                      \A y \in 1..Len(rows) : rows[y].id <= rows[x].id
         IN  <<rows[i]>> \o SortByIdDesc(SubSeq(rows, 1, i - 1)
                                             \o SubSeq(rows, i + 1, Len(rows)))

\* the scanner with scanned items and nothing saved yet; saved is the id
\* the server gave the case of this scanner (the client never reads it),
\* createdCase holds the row the client took for it, sentFor the case_id of
\* the automatic message
ScannerReady ==
    [view |-> "ScannerModal", step |-> "scanned", selectedEmployee |-> NULL,
     saved |-> NULL, createdCase |-> <<>>, sentFor |-> NULL]

\* ScannerModal.handleSave up to the answer of POST /api/cases; t1 and t2
\* are the clock readings of the route
ScannerSave(caseName, selectedEmployee, itemsToSave, t1, t2) ==
    LET employee_id == IF Truthy(selectedEmployee) THEN selectedEmployee
                       ELSE NULL
        r == CreateCaseBody(db, caseName, employee_id, itemsToSave,
                            t1, AddDays(t2, ReturnDays))
    IN  /\ ui.step = "scanned"
        /\ NotBefore(t1, t2)
        /\ itemsToSave # <<>>
        /\ db.cases_seq < MaxCases
        /\ db' = transaction(db, r)
        /\ res' = [op |-> "POST /api/cases", code |-> StatusOf(r)]
        /\ req' = IF r.ok
                  THEN CaseRequest(NULL, caseName, employee_id, "",
                                   [given |-> TRUE, list |-> itemsToSave])
                  ELSE NoBody
        /\ ui' = [ui EXCEPT !.step = IF Truthy(selectedEmployee)
                                     THEN "posted" ELSE "done",
                            !.selectedEmployee = selectedEmployee,
                            !.saved = IF r.ok THEN db'.cases_seq ELSE NULL]
        /\ UNCHANGED foreign_keys

\* handleSave from the answer of GET /api/cases to the call of generatePDF
ScannerFetchCreated ==
    LET allCases == SortByIdDesc(GetCases(db))
        createdCase == IF allCases = <<>> THEN <<>> ELSE <<allCases[1]>>
    IN  /\ ui.step = "posted"
        /\ res' = [op |-> "GET /api/cases", code |-> 200]
        /\ req' = NoBody
        /\ ui' = [ui EXCEPT !.step = IF createdCase # <<>> THEN "pdf"
                                     ELSE "done",
                            !.createdCase = createdCase]
        /\ UNCHANGED <<db, foreign_keys>>

\* generatePDF(createdCase, true): the PDF of createdCase is saved, and
\* when it has an agent sendWhatsAppAPI posts its ids and a message to
\* /api/whatsapp/send
ScannerAutoSend ==
    LET caseObj == ui.createdCase[1]
    IN  /\ ui.step = "pdf"
        /\ IF ~Truthy(caseObj.employee_id)
           THEN UNCHANGED <<db, res, req>>
           ELSE IF caseObj.employee_id \notin DOMAIN db.employees
           THEN /\ db' = db
                /\ res' = [op |-> "POST /api/whatsapp/send", code |-> 404]
                /\ req' = NoBody
           ELSE /\ LogRoom(caseObj.id)
                /\ db' = InsertLog(db, caseObj.id, "WHATSAPP_API",
                           WhatsappDetails(db.employees[caseObj.employee_id].name))
                /\ res' = [op |-> "POST /api/whatsapp/send", code |-> 200]
                /\ req' = NoBody
        /\ ui' = [ui EXCEPT !.step = "done",
                            !.sentFor = IF Truthy(caseObj.employee_id)
                                        THEN caseObj.id ELSE NULL]
        /\ UNCHANGED foreign_keys

CommissionTotals ==
    {0} \cup ((CommissionThreshold - MaxSpread)..(CommissionThreshold + MaxSpread))
ScannedItems == [quantity : {1, 2}, price : {2499, 2500, 2501}]
ScannedLists == SeqsUpTo(ScannedItems, MaxItems)

----------------------------------------------------------------------------
(* Specification *)

Init ==
    /\ db = [employees |-> <<>>, employees_seq |-> 0,
             products |-> <<>>, products_seq |-> 0,
             cases |-> <<>>, cases_seq |-> 0,
             case_items |-> [c \in CaseIds |-> <<>>],
             manual_commissions |-> <<>>, manual_commissions_seq |-> 0,
             logs |-> [k \in LogKeys |-> <<>>]]
    /\ foreign_keys \in BOOLEAN
    /\ res = [op |-> "none", code |-> 0]
    /\ req = NoBody
    /\ ui = NoView

Next ==
    \/ \E name \in EmployeeNames : PostEmployee(name)
    \/ \E id \in EmployeeIds, name \in EmployeeNames : PutEmployee(id, name)
    \/ \E id \in EmployeeIds : DeleteEmployee(id)
    \/ \E body \in ProductBodies \cup InvalidProductBodies : PostProduct(body)
    \/ \E id \in ProductIds, body \in ProductBodies \cup InvalidProductBodies :
           PutProduct(id, body)
    \/ \E id \in ProductIds : DeleteProduct(id)
    \/ \E name \in CaseNames, e \in AgentRefs, items \in ItemLists,
          t1 \in Times, t2 \in Times :
           PostCase(name, e, items, t1, t2)
    \/ \E id \in CaseIds, name \in CaseNames, e \in AgentRefs,
          status \in StatusInputs, items \in ItemsArgs :
           PutCase(id, name, e, status, items)
    \/ \E id \in CaseIds : DeleteCase(id)
    \/ \E id \in CaseIds, action \in LogActions, details \in LogDetails :
           PostCaseLog(id, action, details)
    \/ \E e \in EmployeeIds, price \in CommissionPrices :
           PostManualCommission(e, price)
    \/ \E id \in CommissionIds : DeleteManualCommission(id)
    \/ \E e \in EmployeeIds, c \in {NULL} \cup CaseIds, message \in Messages :
           WhatsappSend(e, c, message)
    \/ \E total \in CommissionTotals : CalculateCommission(total)
    \/ \E employeeFound \in BOOLEAN, scannedItems \in ScannedLists :
           SendWhatsAppFromScanner(employeeFound, scannedItems)

Spec == Init /\ [][Next]_vars

----------------------------------------------------------------------------
(* The commission computations of the client on their own, over an empty   *)
(* database.                                                               *)

NextCommission ==
    \/ \E total \in CommissionTotals : CalculateCommission(total)
    \/ \E employeeFound \in BOOLEAN, scannedItems \in ScannedLists :
           SendWhatsAppFromScanner(employeeFound, scannedItems)

SpecCommission == Init /\ [][NextCommission]_vars

----------------------------------------------------------------------------
(* The case ledger on its own.  The full next-state relation is explored   *)
(* in parts; this part starts from a database in which every case id and   *)
(* employee id but the last has been used and its row deleted again and    *)
(* every product but the last has been created and removed, so one case,   *)
(* one agent and one product can still be created, and draws the requests  *)
(* from the sets below.                                                    *)

LedgerCase == MaxCases
LedgerAgent == MaxEmployees
LedgerProductId == MaxProducts
LedgerItems ==
    { [product_id |-> LedgerProductId, quantity |-> 2, price |-> 3000],
      [product_id |-> 0, quantity |-> 1, price |-> 4000] }
LedgerItemLists == SeqsUpTo(LedgerItems, MaxItems)
LedgerItemsArgs ==
    {[given |-> FALSE, list |-> <<>>]}
        \cup {[given |-> TRUE, list |-> l] : l \in LedgerItemLists}
LedgerProduct == [name |-> "Argola", category |-> "brinco", price |-> 3000]

InitLedger ==
    /\ db = [employees |-> <<>>, employees_seq |-> MaxEmployees - 1,
             products |-> [p \in 1..(MaxProducts - 1) |->
                              [name |-> "Argola", category |-> "brinco",
                               price |-> 3000, status |-> "removed"]],
             products_seq |-> MaxProducts - 1,
             cases |-> <<>>, cases_seq |-> MaxCases - 1,
             case_items |-> [c \in CaseIds |-> <<>>],
             manual_commissions |-> <<>>, manual_commissions_seq |-> 0,
             logs |-> [k \in LogKeys |-> <<>>]]
    /\ foreign_keys \in BOOLEAN
    /\ res = [op |-> "DELETE /api/cases/:id", code |-> 200]
    /\ req = NoBody
    /\ ui = NoView

NextLedger ==
    \/ PostEmployee("Ana")
    \/ DeleteEmployee(LedgerAgent)
    \/ PostProduct(LedgerProduct)
    \/ \E e \in {NULL, LedgerAgent}, items \in LedgerItemLists,
          t1 \in Times, t2 \in Times :
           PostCase("Mala A", e, items, t1, t2)
    \/ \E e \in {NULL, LedgerAgent}, status \in Statuses,
          items \in LedgerItemsArgs :
           PutCase(LedgerCase, "Mala B", e, status, items)
    \/ DeleteCase(LedgerCase)

SpecLedger == InitLedger /\ [][NextLedger]_vars

----------------------------------------------------------------------------
(* The roster, the manual commissions and the statistics.  This part       *)
(* starts from a database that holds every product, active, and in which   *)
(* all case ids and employee ids but the last two have been used and      *)
(* their rows deleted,                                                     *)
(* creates cases of value 6000, and updates them without an items array;   *)
(* no case is deleted.                                                     *)

StatsProductId == MaxProducts
StatsCases == {MaxCases - 1, MaxCases}
StatsAgents == {MaxEmployees - 1, MaxEmployees}
StatsItems ==
    <<[product_id |-> StatsProductId, quantity |-> 2, price |-> 3000]>>

StatsTime == [day |-> 0, ms |-> 0]

InitStats ==
    /\ db = [employees |-> <<>>, employees_seq |-> MaxEmployees - 2,
             products |-> [p \in ProductIds |->
                              [name |-> "Argola", category |-> "brinco",
                               price |-> 3000, status |-> "active"]],
             products_seq |-> MaxProducts,
             cases |-> <<>>, cases_seq |-> MaxCases - 2,
             case_items |-> [c \in CaseIds |-> <<>>],
             manual_commissions |-> <<>>, manual_commissions_seq |-> 0,
             logs |-> [k \in LogKeys |-> <<>>]]
    /\ foreign_keys \in BOOLEAN
    /\ res = [op |-> "POST /api/products", code |-> 200]
    /\ req = NoBody
    /\ ui = NoView

NextStats ==
    \/ PostEmployee("Ana")
    \/ \E id \in StatsAgents : DeleteEmployee(id)
    \/ \E e \in {NULL} \cup StatsAgents :
           PostCase("Mala A", e, StatsItems, StatsTime, StatsTime)
    \/ \E id \in StatsCases, e \in {NULL} \cup StatsAgents,
          status \in Statuses :
           PutCase(id, "Mala A", e, status, [given |-> FALSE, list |-> <<>>])
    \/ \E e \in StatsAgents, price \in CommissionPrices :
           PostManualCommission(e, price)
    \/ \E id \in CommissionIds : DeleteManualCommission(id)

SpecStats == InitStats /\ [][NextStats]_vars

\* The roster alone: the same start, with agents hired and deleted, cases
\* handed to them on creation, the last case reassigned and set to every
\* status, and manual commissions launched and never deleted.
NextRoster ==
    \/ PostEmployee("Ana")
    \/ \E id \in StatsAgents : DeleteEmployee(id)
    \/ \E e \in StatsAgents :
           PostCase("Mala A", e, StatsItems, StatsTime, StatsTime)
    \/ \E e \in {NULL} \cup StatsAgents, status \in Statuses :
           PutCase(MaxCases, "Mala A", e, status,
                   [given |-> FALSE, list |-> <<>>])
    \/ \E e \in StatsAgents, price \in CommissionPrices :
           PostManualCommission(e, price)

SpecRoster == InitStats /\ [][NextRoster]_vars

----------------------------------------------------------------------------
(* The catalog and the case list.  This part starts from a database with   *)
(* no agent, in which every product but the last has been created and      *)
(* removed and all case ids but the last two have been used and their      *)
(* rows deleted; it creates, edits and removes the last product with       *)
(* valid and invalid bodies, creates unassigned cases whose items are      *)
(* copies of one item of that product, or one item the scanner could not   *)
(* match to a product, and updates the status of the cases.                *)

CatalogProductId == MaxProducts
CatalogCases == {MaxCases - 1, MaxCases}
CatalogBodies ==
    { [name |-> "Argola", category |-> "brinco", price |-> 4000],
      [name |-> "Aro", category |-> "anel", price |-> 8001] }
        \cup InvalidProductBodies
CatalogItem == [product_id |-> CatalogProductId, quantity |-> 2, price |-> 4000]
UnmatchedItem == [product_id |-> 0, quantity |-> 1, price |-> 8001]
CatalogItemLists ==
    { [i \in 1..k |-> CatalogItem] : k \in 0..MaxItems } \cup {<<UnmatchedItem>>}

InitCatalog ==
    /\ db = [employees |-> <<>>, employees_seq |-> MaxEmployees,
             products |-> [p \in 1..(MaxProducts - 1) |->
                              [name |-> "Argola", category |-> "brinco",
                               price |-> 4000, status |-> "removed"]],
             products_seq |-> MaxProducts - 1,
             cases |-> <<>>, cases_seq |-> MaxCases - 2,
             case_items |-> [c \in CaseIds |-> <<>>],
             manual_commissions |-> <<>>, manual_commissions_seq |-> 0,
             logs |-> [k \in LogKeys |-> <<>>]]
    /\ foreign_keys \in BOOLEAN
    /\ res = [op |-> "DELETE /api/cases/:id", code |-> 200]
    /\ req = NoBody
    /\ ui = NoView

NextCatalog ==
    \/ \E body \in CatalogBodies : PostProduct(body)
    \/ \E body \in CatalogBodies : PutProduct(CatalogProductId, body)
    \/ DeleteProduct(CatalogProductId)
    \/ \E items \in CatalogItemLists :
           PostCase("Mala A", NULL, items, StatsTime, StatsTime)
    \/ \E id \in CatalogCases, status \in StatusInputs :
           PutCase(id, "Mala A", NULL, status, [given |-> FALSE, list |-> <<>>])

SpecCatalog == InitCatalog /\ [][NextCatalog]_vars

----------------------------------------------------------------------------
(* The audit log.  This part starts from a database with every product     *)
(* active, in which every case id and employee id but the last has been    *)
(* used and its row deleted; it hires the last agent, creates the last     *)
(* case with no item, one item, or one item of quantity 0, and addresses   *)
(* updates, deletes, manual log entries and messaging sends to that case   *)
(* id, before the case exists, while it exists and after its deletion.     *)

AuditCase == MaxCases
AuditAgent == MaxEmployees
AuditProductId == MaxProducts
AuditItem == [product_id |-> AuditProductId, quantity |-> 1, price |-> 3000]
\* the handlers store item.quantity as the body carries it
ZeroQuantityItem ==
    [product_id |-> AuditProductId, quantity |-> 0, price |-> 3000]
AuditItemLists == {<<>>, <<AuditItem>>, <<ZeroQuantityItem>>}
AuditItemsArgs ==
    {[given |-> FALSE, list |-> <<>>], [given |-> TRUE, list |-> <<AuditItem>>]}

InitAudit ==
    /\ db = [employees |-> <<>>, employees_seq |-> MaxEmployees - 1,
             products |-> [p \in ProductIds |->
                              [name |-> "Argola", category |-> "brinco",
                               price |-> 3000, status |-> "active"]],
             products_seq |-> MaxProducts,
             cases |-> <<>>, cases_seq |-> MaxCases - 1,
             case_items |-> [c \in CaseIds |-> <<>>],
             manual_commissions |-> <<>>, manual_commissions_seq |-> 0,
             logs |-> [k \in LogKeys |-> <<>>]]
    /\ foreign_keys \in BOOLEAN
    /\ res = [op |-> "DELETE /api/cases/:id", code |-> 200]
    /\ req = NoBody
    /\ ui = NoView

NextAudit ==
    \/ PostEmployee("Ana")
    \/ \E items \in AuditItemLists :
           PostCase("Mala A", NULL, items, StatsTime, StatsTime)
    \/ \E items \in AuditItemsArgs :
           PutCase(AuditCase, "Mala A", NULL, "PARADO", items)
    \/ DeleteCase(AuditCase)
    \/ \E action \in LogActions, details \in LogDetails :
           PostCaseLog(AuditCase, action, details)
    \/ \E c \in {NULL, AuditCase}, message \in Messages :
           WhatsappSend(AuditAgent, c, message)

SpecAudit == InitAudit /\ [][NextAudit]_vars

----------------------------------------------------------------------------
(* The case editor.  This part starts from a database with every product   *)
(* active, no agent, and every case id but the last used and its row       *)
(* deleted; it creates the last case with an item of the last product, an  *)
(* item the scanner could not match, or both, and lets each of the         *)
(* editors open once on that case, add the product, set the status and     *)
(* save.                                                                   *)

Editors == 1..MaxEditors
EditorsCase == MaxCases
EditorsProductId == MaxProducts
EditorsItem == [product_id |-> EditorsProductId, quantity |-> 2, price |-> 3000]
EditorsItemLists ==
    {<<EditorsItem>>, <<UnmatchedItem>>, <<EditorsItem, UnmatchedItem>>}

InitEditors ==
    /\ db = [employees |-> <<>>, employees_seq |-> MaxEmployees,
             products |-> [p \in ProductIds |->
                              [name |-> "Argola", category |-> "brinco",
                               price |-> 3000, status |-> "active"]],
             products_seq |-> MaxProducts,
             cases |-> <<>>, cases_seq |-> MaxCases - 1,
             case_items |-> [c \in CaseIds |-> <<>>],
             manual_commissions |-> <<>>, manual_commissions_seq |-> 0,
             logs |-> [k \in LogKeys |-> <<>>]]
    /\ foreign_keys \in BOOLEAN
    /\ res = [op |-> "DELETE /api/cases/:id", code |-> 200]
    /\ req = NoBody
    /\ ui = [view |-> "CaseEditorModal", editors |-> [e \in Editors |-> IdleEditor]]

NextEditors ==
    \/ \E items \in EditorsItemLists :
           PostCase("Mala A", NULL, items, StatsTime, StatsTime)
    \/ \E e \in Editors : OpenEditor(e, EditorsCase)
    \/ \E e \in Editors : EditorAddProduct(e, EditorsProductId)
    \/ \E e \in Editors : EditorSetStatus(e, "REPOSIÇÃO NECESSÁRIA")
    \/ \E e \in Editors : EditorSave(e)

SpecEditors == InitEditors /\ [][NextEditors]_vars

\* The scanner saves a case for an agent while another client creates and
\* deletes cases.
ScannerAgent == MaxEmployees
ScannerItem == [product_id |-> MaxProducts, quantity |-> 1, price |-> 3000]
ScannerItemLists == {<<ScannerItem>>, <<UnmatchedItem>>}

InitScanner ==
    /\ db = [employees |-> (ScannerAgent :> [name |-> "Ana"]),
             employees_seq |-> MaxEmployees,
             products |-> [p \in ProductIds |->
                              [name |-> "Argola", category |-> "brinco",
                               price |-> 3000, status |-> "active"]],
             products_seq |-> MaxProducts,
             cases |-> <<>>, cases_seq |-> MaxCases - 2,
             case_items |-> [c \in CaseIds |-> <<>>],
             manual_commissions |-> <<>>, manual_commissions_seq |-> 0,
             logs |-> [k \in LogKeys |-> <<>>]]
    /\ foreign_keys \in BOOLEAN
    /\ res = [op |-> "DELETE /api/cases/:id", code |-> 200]
    /\ req = NoBody
    /\ ui = ScannerReady

NextScanner ==
    \/ \E selectedEmployee \in {NULL, ScannerAgent},
          itemsToSave \in ScannerItemLists :
           ScannerSave("Mala A", selectedEmployee, itemsToSave,
                       StatsTime, StatsTime)
    \/ ScannerFetchCreated
    \/ ScannerAutoSend
    \/ \E e \in {NULL, ScannerAgent} :
           PostCase("Mala B", e, <<ScannerItem>>, StatsTime, StatsTime)
    \/ \E c \in CaseIds : DeleteCase(c)
    \/ DeleteEmployee(ScannerAgent)

SpecScanner == InitScanner /\ [][NextScanner]_vars

----------------------------------------------------------------------------
(* What the claims speak of *)

\* the sum of price_at_time * quantity over stored line items
RECURSIVE StoredTotal(_)
StoredTotal(rows) ==
    IF rows = <<>> THEN 0
    ELSE rows[Len(rows)].price_at_time * rows[Len(rows)].quantity
             + StoredTotal(SubSeq(rows, 1, Len(rows) - 1))

\* the line items a submitted items array describes, and their value
SubmittedRows(items) ==
    [i \in 1..Len(items) |-> [product_id |-> items[i].product_id,
                              quantity |-> items[i].quantity,
                              price_at_time |-> items[i].price]]
SubmittedTotal(items) == StoredTotal(SubmittedRows(items))

----------------------------------------------------------------------------
CreatedWhole(d, items, d2) ==
    LET id == d.cases_seq + 1
    IN  /\ DOMAIN d2.cases = DOMAIN d.cases \cup {id}
        /\ Len(d2.case_items[id]) = Len(d.case_items[id]) + Len(items)
        /\ d2.cases[id].total_value = SubmittedTotal(items)
        /\ Len(d2.logs[id]) = Len(d.logs[id]) + 1
        /\ d2.logs[id][Len(d2.logs[id])].action = "CREATE"

(* C2: a case create either takes effect as a whole (the case row with     *)
(* its total, every submitted line item and the CREATE log entry, in one   *)
(* step) or fails and leaves the database as it was.                       *)
C2_CreateAtomic ==
    [][res'.op = "POST /api/cases" =>
           \/ res'.code = 200 /\ CreatedWhole(db, req'.items.list, db')
           \/ res'.code = 500 /\ db' = db]_vars

\* a create failed on a line item, after the case row was inserted
C2_Witness ==
    /\ res = [op |-> "POST /api/cases", code |-> 500]
    /\ foreign_keys
    /\ LedgerAgent \in DOMAIN db.employees
    /\ LedgerProductId \in DOMAIN db.products

(* C3: a case delete removes, in one step, the case row, every line item   *)
(* and every log entry of that case id.                                    *)
C3_DeleteRemovesAll ==
    [][DeleteCase(LedgerCase) =>
           /\ res'.code = 200
           /\ LedgerCase \notin DOMAIN db'.cases
           /\ db'.case_items[LedgerCase] = <<>>
           /\ db'.logs[LedgerCase] = <<>>]_vars

\* a case that had been created is gone
C3_Witness ==
    /\ res = [op |-> "DELETE /api/cases/:id", code |-> 200]
    /\ db.cases_seq = LedgerCase
    /\ LedgerCase \notin DOMAIN db.cases

(* C5: a case create that answers 200 stores the case in-field iff an      *)
(* agent was supplied and idle otherwise, with return date = delivery      *)
(* date + 60 days, appends exactly the submitted entries as line items     *)
(* and appends one CREATE log entry that records their number.             *)
C5_CreateEffect ==
    [][res'.op = "POST /api/cases" /\ res'.code = 200 =>
           LET id == db.cases_seq + 1
               e == req'.employee_id
               items == req'.items.list
           IN  /\ id \in DOMAIN db'.cases
               /\ db'.cases[id].status = "EM_CAMPO" <=> e # NULL
               /\ db'.cases[id].status = "PARADO" <=> e = NULL
               /\ db'.cases[id].employee_id = e
               /\ db'.cases[id].return_date
                      = [day |-> db'.cases[id].delivery_date.day + 60,
                         ms |-> db'.cases[id].delivery_date.ms]
               /\ db'.case_items[id]
                      = db.case_items[id] \o SubmittedRows(items)
               /\ db'.logs = [db.logs EXCEPT ![id] = Append(@,
                      [action |-> "CREATE",
                       details |-> "Maleta criada com "
                           \o ToString(Len(items)) \o " itens."])]]_vars

(* C6: an update of an existing case that carries an items array and       *)
(* answers 200 leaves exactly the submitted list as the case's line items, *)
(* total_value computed from it, name, agent and status as submitted, and  *)
(* one more log entry, UPDATE; an update that fails leaves the database as *)
(* it was.                                                                 *)
C6_UpdateReplacesItems ==
    [][res'.op = "PUT /api/cases/:id" /\ LedgerCase \in DOMAIN db.cases =>
           \/ /\ res'.code = 200
              /\ req'.id = LedgerCase
              /\ req'.items.given =>
                     /\ db'.case_items[LedgerCase]
                            = SubmittedRows(req'.items.list)
                     /\ db'.cases[LedgerCase].total_value
                            = SubmittedTotal(req'.items.list)
                     /\ db'.cases[LedgerCase].name = req'.name
                     /\ db'.cases[LedgerCase].employee_id = req'.employee_id
                     /\ db'.cases[LedgerCase].status = req'.status
                     /\ db'.logs = [db.logs EXCEPT ![LedgerCase] = Append(@,
                            [action |-> "UPDATE",
                             details |-> "Maleta atualizada."])]
           \/ res'.code = 500 /\ db' = db]_vars

\* an updated case whose two line items are a replacement list
C6_Witness ==
    /\ res = [op |-> "PUT /api/cases/:id", code |-> 200]
    /\ req.items.given /\ Len(req.items.list) = 2
    /\ LedgerCase \in DOMAIN db.cases
    /\ db.cases[LedgerCase].name = "Mala B"
    /\ db.cases[LedgerCase].total_value = 10000
    /\ Len(db.case_items[LedgerCase]) = 2
    /\ Len(db.logs[LedgerCase]) = 2
    /\ db.logs[LedgerCase][2].action = "UPDATE"
    /\ db.logs[LedgerCase][1].details = "Maleta criada com 1 itens."

(* C7: an update of an existing case that carries no items array and       *)
(* answers 200 sets name, agent and status, appends an UPDATE log entry    *)
(* and leaves the case's line items, total_value, delivery date and        *)
(* return date as they were.                                               *)
C7_UpdateWithoutItems ==
    [][/\ res'.op = "PUT /api/cases/:id"
       /\ res'.code = 200
       /\ LedgerCase \in DOMAIN db.cases
       /\ ~req'.items.given
       => /\ req'.id = LedgerCase
          /\ db'.cases[LedgerCase] =
                 [db.cases[LedgerCase] EXCEPT !.name = req'.name,
                                              !.employee_id = req'.employee_id,
                                              !.status = req'.status]
          /\ db'.case_items = db.case_items
          /\ db'.logs = [db.logs EXCEPT ![LedgerCase] = Append(@,
                 [action |-> "UPDATE",
                  details |-> "Maleta atualizada."])]]_vars

\* a case created with two line items, then updated: the items are those
\* the create logged and the dates those the create stored
C7_Witness ==
    /\ res = [op |-> "PUT /api/cases/:id", code |-> 200]
    /\ ~req.items.given
    /\ LedgerCase \in DOMAIN db.cases
    /\ db.cases[LedgerCase].name = "Mala B"
    /\ db.cases[LedgerCase].status = "REPOSIÇÃO NECESSÁRIA"
    /\ db.cases[LedgerCase].delivery_date = [day |-> 0, ms |-> 0]
    /\ db.cases[LedgerCase].return_date = [day |-> 60, ms |-> 1]
    /\ db.cases[LedgerCase].total_value = 12000
    /\ Len(db.logs[LedgerCase]) = 2
    /\ db.logs[LedgerCase][2].action = "UPDATE"
    /\ db.logs[LedgerCase][1].details = "Maleta criada com 2 itens."

----------------------------------------------------------------------------
(* What the claims about the roster and the statistics speak of *)

\* the sum of g[x] over the x of S for which keep[x] holds
RECURSIVE SumIf(_, _, _)
SumIf(g, keep, S) ==
    IF S = {} THEN 0
    ELSE LET x == CHOOSE y \in S : \A z \in S : y >= z
         IN  (IF keep[x] THEN g[x] ELSE 0) + SumIf(g, keep, S \ {x})

\* total_value over the cases that reference agent e, in any status
CaseSales(d, e) ==
    SumIf([c \in DOMAIN d.cases |-> d.cases[c].total_value],
          [c \in DOMAIN d.cases |-> d.cases[c].employee_id = e],
          DOMAIN d.cases)

\* price over the manual commissions of agent e
ManualSales(d, e) ==
    SumIf([m \in DOMAIN d.manual_commissions |->
              d.manual_commissions[m].price],
          [m \in DOMAIN d.manual_commissions |->
              d.manual_commissions[m].employee_id = e],
          DOMAIN d.manual_commissions)

InFieldCases(d, e) ==
    { c \in DOMAIN d.cases :
        d.cases[c].employee_id = e /\ d.cases[c].status = "EM_CAMPO" }

\* the position of agent e among the rows of a query grouped by e.id
RankOf(d, e) == Cardinality({ x \in DOMAIN d.employees : x <= e })

----------------------------------------------------------------------------
(* C4: deleting an agent with at least one in-field case answers with the  *)
(* conflict error and changes nothing; deleting an agent with no in-field  *)
(* case succeeds and the agent row is gone.                                *)
C4_AgentDeletion ==
    [][\A id \in StatsAgents :
           DeleteEmployee(id) =>
               IF InFieldCases(db, id) # {}
               THEN res'.code = 400 /\ db' = db
               ELSE res'.code = 200 /\ id \notin DOMAIN db'.employees]_vars

(* C8: the roster list gives every agent total_sales = the total_value of  *)
(* all the agent's cases plus the price of all the agent's manual          *)
(* commissions.                                                            *)
C8_RosterTotalSales ==
    LET rows == GetEmployees(db)
    IN  \A i \in 1..Len(rows) :
            rows[i].total_sales
                = CaseSales(db, rows[i].id) + ManualSales(db, rows[i].id)

(* C9: the vgv of the statistics is the total_value of all cases that are  *)
(* not idle plus the price of all stored manual commissions, those of      *)
(* deleted agents included, and 0 when there is neither.                   *)
C9_Vgv ==
    GetStats(db).vgv
        = SumIf([c \in DOMAIN db.cases |-> db.cases[c].total_value],
                [c \in DOMAIN db.cases |-> db.cases[c].status # "PARADO"],
                DOMAIN db.cases)
          + SumIf([m \in DOMAIN db.manual_commissions |->
                      db.manual_commissions[m].price],
                  [m \in DOMAIN db.manual_commissions |-> TRUE],
                  DOMAIN db.manual_commissions)

\* an idle case, a restock-needed case and the commission of a deleted agent
C9_Witness ==
    /\ \E c \in DOMAIN db.cases : db.cases[c].status = "PARADO"
    /\ \E c \in DOMAIN db.cases :
           db.cases[c].status = "REPOSIÇÃO NECESSÁRIA"
    /\ \E m \in DOMAIN db.manual_commissions :
           db.manual_commissions[m].employee_id \notin DOMAIN db.employees
    /\ GetStats(db).vgv = 6200

(* C10: the statistics hold one per-agent entry for every existing agent,  *)
(* its value the total_value of all the agent's cases plus the price of    *)
(* the agent's manual commissions; activeCases counts the in-field cases   *)
(* and totalEmployees the agent rows.                                      *)
C10_StatsPerAgent ==
    LET st == GetStats(db)
    IN  /\ Len(st.salesByEmployee) = Cardinality(DOMAIN db.employees)
        /\ \A e \in DOMAIN db.employees :
               /\ RankOf(db, e) <= Len(st.salesByEmployee)
               /\ st.salesByEmployee[RankOf(db, e)] =
                      [name |-> db.employees[e].name,
                       value |-> CaseSales(db, e) + ManualSales(db, e)]
        /\ st.activeCases =
               Cardinality({ c \in DOMAIN db.cases :
                               db.cases[c].status = "EM_CAMPO" })
        /\ st.totalEmployees = Cardinality(DOMAIN db.employees)

\* two agents: one with neither case nor commission, the other with one of
\* each; one case in field
C10_Witness ==
    /\ Cardinality(DOMAIN db.employees) = 2
    /\ GetStats(db).salesByEmployee
           = <<[name |-> "Ana", value |-> 0], [name |-> "Ana", value |-> 6200]>>
    /\ GetStats(db).activeCases = 1
    /\ Cardinality(DOMAIN db.cases) = 2

----------------------------------------------------------------------------
(* What the claims about the catalog and the case list speak of *)

\* the number of i in 1..Len(rows) whose row the case view flags as premium
FlaggedPremium(rows) == Cardinality({ i \in 1..Len(rows) : isPremium(rows[i]) })

----------------------------------------------------------------------------
(* C11: the commission calculator gives rate 40% for a total of at least   *)
(* 5000 and 30% below, payout = total x rate, and writes no state; the     *)
(* scanner's inline computation gives the rate and payout that             *)
(* calculateCommission gives for the same total.                           *)
C11_Commission ==
    [][/\ ui'.view = "calculateCommission" =>
              /\ ui'.rate = (IF ui'.total < 5000 THEN 30 ELSE 40)
              /\ ui'.value * 10 = ui'.total * ui'.rate
       /\ ui'.view = "sendWhatsAppFromScanner" =>
              /\ ui'.rate = calculateCommission(ui'.total).rate
              /\ ui'.value = calculateCommission(ui'.total).value
       /\ ui' # ui => db' = db /\ res' = res]_vars

\* the scanner summarised two items of 2500: the boundary total, at 40%
C11_Witness ==
    /\ ui.view = "sendWhatsAppFromScanner"
    /\ ui.total = 5000
    /\ ui.rate = 40
    /\ ui.value = 20000

(* C12: the case view flags a case as premium iff its total_value is      *)
(* above 8000, 8000 itself is not premium, and the premiumCases of the     *)
(* statistics is the number of flagged cases of the case list, whatever    *)
(* their status.                                                           *)
C12_Premium ==
    /\ \A c \in DOMAIN db.cases :
           isPremium(CaseListRow(db, c)) <=> db.cases[c].total_value >= 8001
    /\ Len(GetCases(db)) = Cardinality(DOMAIN db.cases)
    /\ GetStats(db).premiumCases = FlaggedPremium(GetCases(db))

\* an idle case of exactly 8000 and a case above it that no longer is idle
C12_Witness ==
    /\ \E c \in DOMAIN db.cases :
           db.cases[c].total_value = 8000 /\ db.cases[c].status = "PARADO"
    /\ \E c \in DOMAIN db.cases :
           db.cases[c].total_value > 8000 /\ db.cases[c].status # "PARADO"
    /\ GetStats(db).premiumCases = 1

Relabelled(rows, id, body) ==
    [k \in DOMAIN rows |->
        [rows[k] EXCEPT !.items =
            [i \in DOMAIN @ |->
                IF @[i].product_id = id
                THEN [@[i] EXCEPT !.product_name = body.name,
                                  !.product_category = body.category]
                ELSE @[i]]]]

(* C14: a product update that answers 200 for an existing product stores   *)
(* the request's price and leaves every stored line item (so every         *)
(* price_at_time) and every case's total_value unchanged, and the case     *)
(* list after the step is the case list before it (same cases, totals,     *)
(* items, quantities and price_at_time) except that the items of the       *)
(* edited product show the name and category of the request.               *)
C14_PriceSnapshot ==
    [][/\ res' = [op |-> "PUT /api/products/:id", code |-> 200]
       /\ CatalogProductId \in DOMAIN db.products
       => \A body \in CatalogBodies :
              PutProduct(CatalogProductId, body)
              => /\ db'.products[CatalogProductId].price = body.price
                 /\ db'.case_items = db.case_items
                 /\ TotalValueOf(db') = TotalValueOf(db)
                 /\ GetCases(db')
                        = Relabelled(GetCases(db), CatalogProductId, body)]_vars

\* a product update to price 8001 has answered 200 while a listed case holds
\* two items of that product at price_at_time 4000 and total_value 16000
C14_Witness ==
    /\ res = [op |-> "PUT /api/products/:id", code |-> 200]
    /\ CatalogProductId \in DOMAIN db.products
    /\ db.products[CatalogProductId].price = 8001
    /\ \E c \in DOMAIN db.cases :
           /\ db.cases[c].total_value = 16000
           /\ Len(CaseListRow(db, c).items) = 2
           /\ \A i \in 1..2 :
                  /\ CaseListRow(db, c).items[i].price_at_time = 4000
                  /\ CaseListRow(db, c).items[i].product_name = "Aro"

(* C15: no step removes a product row; a product delete of an existing     *)
(* product changes nothing in the database but that product's status,      *)
(* which becomes removed, so the line items and the case totals are        *)
(* unchanged; the case list after the step equals the case list before it, *)
(* and the product is not in the active product list after the step.       *)
C15_SoftDelete ==
    [][/\ DOMAIN db.products \subseteq DOMAIN db'.products
       /\ res'.op = "DELETE /api/products/:id"
             /\ DeleteProduct(CatalogProductId)
             /\ CatalogProductId \in DOMAIN db.products
          => /\ res'.code = 200
             /\ db' = [db EXCEPT !.products[CatalogProductId].status = "removed"]
             /\ db'.case_items = db.case_items
             /\ TotalValueOf(db') = TotalValueOf(db)
             /\ GetCases(db') = GetCases(db)
             /\ \A i \in 1..Len(GetProducts(db')) :
                    GetProducts(db')[i].id # CatalogProductId]_vars

\* a product delete has answered 200, the product is stored as removed, a
\* listed case still shows two items of it, and the active list lacks it
C15_Witness ==
    /\ res = [op |-> "DELETE /api/products/:id", code |-> 200]
    /\ CatalogProductId \in DOMAIN db.products
    /\ db.products[CatalogProductId].status = "removed"
    /\ \E c \in DOMAIN db.cases :
           /\ db.cases[c].total_value = 16000
           /\ Len(CaseListRow(db, c).items) = 2
           /\ CaseListRow(db, c).items[1].product_id = CatalogProductId
    /\ \A i \in 1..Len(GetProducts(db)) :
           GetProducts(db)[i].id # CatalogProductId

(* C16: a product update or product delete whose id matches no product     *)
(* row answers with a 4xx code and leaves the products unchanged.          *)
C16_UnknownProduct ==
    [][/\ CatalogProductId \notin DOMAIN db.products
       /\ \/ \E body \in CatalogBodies : PutProduct(CatalogProductId, body)
          \/ DeleteProduct(CatalogProductId)
       => /\ res'.code \in 400..499
          /\ db'.products = db.products]_vars

(* C17: a product create, or an update of an existing product, whose body  *)
(* lacks the name, the category or the price, or has a negative price,     *)
(* does not answer 200 and leaves the database unchanged; and after every  *)
(* step every product has price >= 0.                                      *)
C17_ProductValidation ==
    [][/\ \A body \in InvalidProductBodies :
              \/ PostProduct(body)
              \/ /\ PutProduct(CatalogProductId, body)
                 /\ CatalogProductId \in DOMAIN db.products
              => res'.code # 200 /\ db' = db
       /\ \A p \in DOMAIN db'.products : db'.products[p].price >= 0]_vars

C19_StatusDomain ==
    \A c \in DOMAIN db.cases : db.cases[c].status \in Statuses

(* C20: in every reachable state a case with no agent reference has        *)
(* status PARADO.                                                          *)
C20_UnassignedIsIdle ==
    \A c \in DOMAIN db.cases :
        db.cases[c].employee_id = NULL => db.cases[c].status = "PARADO"

\* a is an initial part of b
IsPrefix(a, b) == Len(a) <= Len(b) /\ SubSeq(b, 1, Len(a)) = a

\* the keys of the logs table whose rows differ between d and d2
LogKeysChanged(d, d2) == { k \in LogKeys : d2.logs[k] # d.logs[k] }

\* the routes that write a log entry
LoggingRoutes ==
    {"POST /api/cases", "PUT /api/cases/:id", "POST /api/cases/:id/log",
     "POST /api/whatsapp/send"}

(* C21: in every reachable state every stored line item has quantity >= 1. *)
C21_QuantityAtLeastOne ==
    \A c \in DOMAIN db.case_items :
        \A i \in 1..Len(db.case_items[c]) : db.case_items[c][i].quantity >= 1

(* C22: in every step the log entries of every case id stay as they were  *)
(* with at most new entries after them, or are all removed by a case       *)
(* delete after which no case of that id exists; a case create, case       *)
(* update, manual log append or messaging send that answers 200 adds       *)
(* exactly one entry, under one case id, and leaves the others alone (the  *)
(* create a CREATE entry under the new id, the update an UPDATE entry      *)
(* under its id, the send a WHATSAPP_API entry); and every response of the *)
(* log read of a case id holds all its entries, each one before every      *)
(* entry of a smaller created_at.                                          *)
C22_AppendOnlyLog ==
    [][/\ \A k \in LogKeys :
              \/ IsPrefix(db.logs[k], db'.logs[k])
              \/ /\ db'.logs[k] = <<>>
                 /\ res' = [op |-> "DELETE /api/cases/:id", code |-> 200]
                 /\ k \notin DOMAIN db'.cases
       /\ res'.op \in LoggingRoutes /\ res'.code = 200
          => \E k \in LogKeys :
                 /\ LogKeysChanged(db, db') = {k}
                 /\ Len(db'.logs[k]) = Len(db.logs[k]) + 1
                 /\ res'.op = "POST /api/cases"
                        => /\ k = db'.cases_seq
                           /\ db'.logs[k][Len(db'.logs[k])].action = "CREATE"
                 /\ res'.op = "PUT /api/cases/:id"
                        => /\ k = req'.id
                           /\ db'.logs[k][Len(db'.logs[k])].action = "UPDATE"
                 /\ res'.op = "POST /api/whatsapp/send"
                        => db'.logs[k][Len(db'.logs[k])].action
                               = "WHATSAPP_API"
       /\ \A k \in LogKeys :
              \A r \in GetCaseLogs(db', k) :
                  /\ Len(r) = Len(db'.logs[k])
                  /\ \A i, j \in 1..Len(r) :
                         r[i].created_at > r[j].created_at => i < j]_vars

\* the case has its CREATE and its UPDATE entry, a read of its log gives
\* the UPDATE entry of the later second first, and a messaging send has
\* answered 200 and left its entry under no case id
C22_Witness ==
    /\ res = [op |-> "POST /api/whatsapp/send", code |-> 200]
    /\ AuditCase \in DOMAIN db.cases
    /\ Len(db.logs[AuditCase]) = 2
    /\ db.logs[AuditCase][1].action = "CREATE"
    /\ db.logs[AuditCase][2].action = "UPDATE"
    /\ \E r \in GetCaseLogs(db, AuditCase) :
           r[1].action = "UPDATE" /\ r[1].created_at > r[2].created_at
    /\ Len(db.logs[NULL]) >= 1
    /\ db.logs[NULL][Len(db.logs[NULL])].action = "WHATSAPP_API"

(* C24: a messaging send for an agent id with no agent row answers 404 and *)
(* leaves the database unchanged; one for an existing agent answers 200    *)
(* and changes the database by exactly one appended WHATSAPP_API log entry *)
(* under the case id of the body, or under NULL when the body has none.    *)
C24_MessagingSend ==
    [][res'.op = "POST /api/whatsapp/send" =>
       \A c \in {NULL, AuditCase}, message \in Messages :
           WhatsappSend(AuditAgent, c, message) =>
               IF AuditAgent \notin DOMAIN db.employees
               THEN res'.code = 404 /\ db' = db
               ELSE /\ res'.code = 200
                    /\ db' = [db EXCEPT !.logs[c] = Append(@,
                                 [action |-> "WHATSAPP_API",
                                  details |-> WhatsappDetails(
                                      db.employees[AuditAgent].name)])]]_vars

C28_NoOrphans ==
    /\ \A c \in DOMAIN db.case_items :
           db.case_items[c] # <<>> => c \in DOMAIN db.cases
    /\ \A k \in LogKeys \ {NULL} :
           db.logs[k] # <<>> => k \in DOMAIN db.cases

(* C29: a case create that answers 200 gives the case an id above every    *)
(* id given before, and right after it the line items stored under that    *)
(* id are exactly the submitted ones and the log entries stored under it   *)
(* are exactly one CREATE entry.                                           *)
C29_NewCaseStartsClean ==
    [][res'.op = "POST /api/cases" /\ res'.code = 200 =>
           LET id == db'.cases_seq
           IN  /\ id > db.cases_seq
               /\ id \notin DOMAIN db.cases
               /\ id \in DOMAIN db'.cases
               /\ db'.case_items[id] = SubmittedRows(req'.items.list)
               /\ db'.logs[id]
                      = <<[action |-> "CREATE",
                           details |-> CreateDetails(Len(req'.items.list))]>>]_vars

(* C23: a case update with an items array that is committed (answered      *)
(* 200) for an existing case leaves the case with the name, agent and      *)
(* status of that request, its items as the only line items and their sum  *)
(* as total_value, whatever was stored before; when the request committed  *)
(* before it was an update of the same case with another items array, the  *)
(* line items of that earlier request are not what is stored.              *)
C23_LastCommittedWins ==
    [][/\ res' = [op |-> "PUT /api/cases/:id", code |-> 200]
       /\ req'.items.given
       /\ req'.id \in DOMAIN db.cases
       => LET id == req'.id
          IN  /\ db'.cases[id].name = req'.name
              /\ db'.cases[id].employee_id = req'.employee_id
              /\ db'.cases[id].status = req'.status
              /\ db'.case_items[id] = SubmittedRows(req'.items.list)
              /\ db'.cases[id].total_value = SubmittedTotal(req'.items.list)
              /\ /\ res = [op |-> "PUT /api/cases/:id", code |-> 200]
                 /\ req.id = id
                 /\ req.items.given
                 /\ req.items.list # req'.items.list
                 => db'.case_items[id] # SubmittedRows(req.items.list)]_vars

\* two editors have saved the same case: one sent two items, the other,
\* committed last, sent one item and the status it had set; the case holds
\* that one item and that status, and its log the entries of both updates
C23_Witness ==
    /\ res = [op |-> "PUT /api/cases/:id", code |-> 200]
    /\ ui.view = "CaseEditorModal"
    /\ \E a, b \in Editors :
           /\ ui.editors[a].step = "saved" /\ ui.editors[b].step = "saved"
           /\ Len(ui.editors[a].sent) = 2
           /\ Len(ui.editors[b].sent) = 1
           /\ req.items.list = ui.editors[b].sent
           /\ req.status = "REPOSIÇÃO NECESSÁRIA"
    /\ Len(db.case_items[EditorsCase]) = 1
    /\ db.cases[EditorsCase].status = "REPOSIÇÃO NECESSÁRIA"
    /\ db.cases[EditorsCase].total_value = 6000
    /\ Len(db.logs[EditorsCase]) = 3

C30_AutoSendForSavedCase ==
    /\ ui.createdCase # <<>> => ui.createdCase[1].id = ui.saved
    /\ ui.sentFor # NULL => ui.sentFor = ui.saved

====
